---- MODULE Spec2Model ----
(***************************************************************************)
(* Model of the royalty_distribution Anchor program                        *)
(* (programs/royalty-distribution/src/lib.rs).                             *)
(*                                                                         *)
(* The state is the Music account of one work and the outcome of the last  *)
(* instruction.  Each instruction is one action: the account constraints   *)
(* of its Accounts struct, then the handler.  A handler mutates the        *)
(* deserialized account; the account is written back only when the handler *)
(* returns Ok (an Err aborts the instruction and the account keeps the     *)
(* data it had before).                                                    *)
(*                                                                         *)
(* u64 values are kept at their full width as little-endian sequences of   *)
(* NumLimbs limbs in base LimbBase, because the model checker's integers   *)
(* are narrower than 64 bits.                                              *)
(***************************************************************************)
EXTENDS Integers, Sequences, FiniteSets, TLC

(* ---------------------------------------------------------------------- *)
(* Bounds of the model                                                     *)
(* ---------------------------------------------------------------------- *)

\* Largest number of contributors registered under Spec and under SplitSpec
\* (both below the space the account reserves, lib.rs line 140).
MaxContributors == 3
SplitMaxContributors == 2

(* ---------------------------------------------------------------------- *)
(* Integer widths                                                          *)
(* ---------------------------------------------------------------------- *)

U16Bits == 16
U64Bits == 64
U16Max == 2^U16Bits - 1

LimbBase == 2^8
NumLimbs == U64Bits \div 8

\* The limbs of the natural number n, least significant first, k of them.
RECURSIVE ToLimbs(_, _)
ToLimbs(n, k) ==
    IF k = 0 THEN <<>> ELSE <<n % LimbBase>> \o ToLimbs(n \div LimbBase, k - 1)

\* A u64 from a small natural number.
U64(n) == ToLimbs(n, NumLimbs)

\* u64::MAX
U64Max == [i \in 1..NumLimbs |-> LimbBase - 1]

\* 2^63
U64High == [i \in 1..NumLimbs |-> IF i = NumLimbs THEN LimbBase \div 2 ELSE 0]

IsZero(a) == \A i \in 1..Len(a) : a[i] = 0

\* a padded with zero limbs up to k limbs.
Pad(a, k) == [i \in 1..k |-> IF i <= Len(a) THEN a[i] ELSE 0]

\* a < b for limb sequences of the same length.
Less(a, b) ==
    \E i \in 1..Len(a) :
        /\ a[i] < b[i]
        /\ \A j \in (i + 1)..Len(a) : a[j] = b[j]

\* The exact product a * m of a limb sequence and a natural m <= U16Max,
\* two limbs longer than a.
RECURSIVE MulCarry(_, _, _)
MulCarry(a, m, c) ==
    IF a = <<>> THEN ToLimbs(c, 2)
    ELSE LET t == Head(a) * m + c
         IN  <<t % LimbBase>> \o MulCarry(Tail(a), m, t \div LimbBase)

WideMul(a, m) == MulCarry(a, m, 0)

\* The exact sum a + b of limb sequences of the same length, one limb longer.
RECURSIVE AddCarry(_, _, _)
AddCarry(a, b, c) ==
    IF a = <<>> THEN <<c>>
    ELSE LET t == Head(a) + Head(b) + c
         IN  <<t % LimbBase>> \o AddCarry(Tail(a), Tail(b), t \div LimbBase)

WideAdd(a, b) == AddCarry(a, b, 0)

\* a - b for limb sequences of the same length with b <= a.
RECURSIVE SubBorrow(_, _, _)
SubBorrow(a, b, c) ==
    IF a = <<>> THEN <<>>
    ELSE LET t == Head(a) - Head(b) - c
         IN  IF t < 0
             THEN <<t + LimbBase>> \o SubBorrow(Tail(a), Tail(b), 1)
             ELSE <<t>> \o SubBorrow(Tail(a), Tail(b), 0)

\* The remainder of the limbs i..Len(a) of a (as a number) divided by d.
RECURSIVE RemFrom(_, _, _)
RemFrom(a, d, i) ==
    IF i > Len(a) THEN 0 ELSE (RemFrom(a, d, i + 1) * LimbBase + a[i]) % d

\* floor(a / d) by long division, d > 0.
LongDiv(a, d) ==
    [i \in 1..Len(a) |-> (RemFrom(a, d, i + 1) * LimbBase + a[i]) \div d]

(* ---------------------------------------------------------------------- *)
(* Checked arithmetic of the handlers                                      *)
(* ---------------------------------------------------------------------- *)

None == [some |-> FALSE]
Some(v) == [some |-> TRUE, val |-> v]

\* u16 addition that wraps instead of failing.
wrapping_add(a, b) == Some((a + b) % (U16Max + 1))

\* u16::checked_add
checked_add(a, b) == IF a + b > U16Max THEN None ELSE Some(a + b)

\* u64::checked_mul by a weight widened to u64
checked_mul(a, m) ==
    LET wide == WideMul(a, m)
    IN  IF \A i \in (NumLimbs + 1)..Len(wide) : wide[i] = 0
        THEN Some(SubSeq(wide, 1, NumLimbs))
        ELSE None

\* u64::checked_div by a weight widened to u64
checked_div(a, d) == IF d = 0 THEN None ELSE Some(LongDiv(a, d))

\* u64::checked_sub
checked_sub(a, b) == IF Less(a, b) THEN None ELSE Some(SubBorrow(a, b, 0))

(* ---------------------------------------------------------------------- *)
(* Inputs                                                                  *)
(* ---------------------------------------------------------------------- *)

\* Public keys of transaction signers (the authority account).
Signers == {"owner", "other"}

\* Public keys of contributor accounts.
Pubkeys == {"A", "B", "C"}

MusicIds == {"W"}

ContributorTypes == {"composer", "performer"}

Weights == {0, U16Max}

Amounts == {U64(0), U64(1), U64Max}

\* Inputs of the specification of the split: one signer and one role label,
\* with the weights and amounts that make the shares round, vanish and
\* overflow.
SplitSigners == {"owner"}

SplitPubkeys == {"A", "B", "C"}

SplitContributorTypes == {"composer"}

SplitWeights == {0, 1, 2, 5, 30, 70, U16Max}

SplitAmounts ==
    {U64(0), U64(1), U64(10), U64(100), U64(999), U64High, U64Max}

\* The transfer destinations of DistributeRoyalty.
FirstContributor == "first_contributor"
SecondContributor == "second_contributor"

(* ---------------------------------------------------------------------- *)
(* State                                                                   *)
(* ---------------------------------------------------------------------- *)

VARIABLES
    allocated,  \* the Music account exists (created by the init constraint)
    music,      \* the data of the Music account
    result,     \* what the last instruction returned
    transfers,  \* the token::transfer calls the last instruction issued, in order
    call        \* the last instruction, its inputs and the account before it

vars == <<allocated, music, result, transfers, call>>

\* The Music account data before initialize_music has run.
NoMusic ==
    [authority |-> "none", music_id |-> "", contributors |-> <<>>,
     total_weight |-> 0, initialized |-> FALSE]

NoCall ==
    [op |-> "none", authority |-> "none", music_id |-> "", contributor |-> "none",
     contributor_type |-> "", contribution_weight |-> 0, amount |-> U64(0),
     second_contributor |-> FALSE, allocated |-> FALSE, music |-> NoMusic]

(* ---------------------------------------------------------------------- *)
(* Handlers                                                                *)
(* ---------------------------------------------------------------------- *)

\* initialize_music: the account after the handler.
initialize_music(m, authority, music_id) ==
    [m EXCEPT !.authority = authority,
              !.music_id = music_id,
              !.contributors = <<>>,
              !.total_weight = 0,
              !.initialized = TRUE]

ContributorInfo(contributor, contributor_type, contribution_weight) ==
    [contributor |-> contributor, contributor_type |-> contributor_type,
     contribution_weight |-> contribution_weight]

\* A duplicate scan that looks at the last entry only.
ContributorExistsLastOnly(contributors, key) ==
    Len(contributors) >= 1 /\ contributors[Len(contributors)].contributor = key

\* A duplicate scan that looks at the first entry only.
ContributorExistsFirstOnly(contributors, key) ==
    Len(contributors) >= 1 /\ contributors[1].contributor = key

\* The scan of add_contribution for an entry with this key.
ContributorExists(contributors, key) ==
    \E i \in 1..Len(contributors) : contributors[i].contributor = key

\* add_contribution that inserts the new entry at the front.
add_contribution_inserts_first(m, contributor, contributor_type, weight) ==
    IF ContributorExists(m.contributors, contributor)
    THEN [result |-> "ContributorAlreadyExists", music |-> m]
    ELSE LET pushed ==
                 [m EXCEPT !.contributors =
                     <<ContributorInfo(contributor, contributor_type,
                                       weight)>> \o @]
             sum == checked_add(pushed.total_weight, weight)
         IN  IF ~sum.some
             THEN [result |-> "MathOverflow", music |-> pushed]
             ELSE [result |-> "Ok",
                   music |-> [pushed EXCEPT !.total_weight = sum.val]]

\* add_contribution that pushes the entry and leaves total_weight alone.
add_contribution_keeps_total(m, contributor, contributor_type, weight) ==
    IF ContributorExists(m.contributors, contributor)
    THEN [result |-> "ContributorAlreadyExists", music |-> m]
    ELSE LET pushed ==
                 [m EXCEPT !.contributors =
                     Append(@, ContributorInfo(contributor, contributor_type,
                                               weight))]
             sum == checked_add(pushed.total_weight, weight)
         IN  IF ~sum.some
             THEN [result |-> "MathOverflow", music |-> pushed]
             ELSE [result |-> "Ok", music |-> pushed]

\* add_contribution: the handler's result and the deserialized account as
\* the handler leaves it (the push precedes the checked addition).
add_contribution(m, contributor, contributor_type, contribution_weight) ==
    IF ContributorExists(m.contributors, contributor)
    THEN [result |-> "ContributorAlreadyExists", music |-> m]
    ELSE LET pushed ==
                 [m EXCEPT !.contributors =
                     Append(@, ContributorInfo(contributor, contributor_type,
                                               contribution_weight))]
             sum == checked_add(pushed.total_weight, contribution_weight)
         IN  IF ~sum.some
             THEN [result |-> "MathOverflow", music |-> pushed]
             ELSE [result |-> "Ok",
                   music |-> [pushed EXCEPT !.total_weight = sum.val]]

\* One token::transfer CPI call and whether the token program accepted it.
Transfer(to, amount, ok) == [to |-> to, amount |-> amount, ok |-> ok]

\* A guard that lets every share through.
ShareAlwaysSent(share) == TRUE

\* The guard `share > 0` in front of each transfer of the two-contributor case.
ShareIsSent(share) == ~IsZero(share)

\* The single-contributor case with the guard of the two-contributor case.
distribute_one_guarded(amount, ok1) ==
    IF IsZero(amount)
    THEN [result |-> "Ok", transfers |-> <<>>]
    ELSE [result |-> IF ok1 THEN "Ok" ELSE "TransferFailed",
          transfers |-> <<Transfer(FirstContributor, amount, ok1)>>]

\* The single-contributor case of distribute.
distribute_one(amount, ok1) ==
    [result |-> IF ok1 THEN "Ok" ELSE "TransferFailed",
     transfers |-> <<Transfer(FirstContributor, amount, ok1)>>]

\* The first share computed from the second contributor's weight.
first_share_of_second(m, amount) ==
    LET product == checked_mul(amount, m.contributors[2].contribution_weight)
    IN  IF ~product.some THEN None ELSE checked_div(product.val, m.total_weight)

\* The first contributor's share: amount * first_weight / total_weight in u64.
first_share_of(m, amount) ==
    LET product == checked_mul(amount, m.contributors[1].contribution_weight)
    IN  IF ~product.some THEN None ELSE checked_div(product.val, m.total_weight)

\* The second share computed proportionally like the first.
second_share_proportional(m, amount, first_share) ==
    LET product == checked_mul(amount, m.contributors[2].contribution_weight)
    IN  IF ~product.some THEN None ELSE checked_div(product.val, m.total_weight)

\* The second contributor's share: the remainder.
second_share_of(m, amount, first_share) == checked_sub(amount, first_share)

\* The two transfers with the result of the first one dropped: the second
\* is issued whatever became of the first, and decides the result.
two_transfers_first_unchecked(first_share, second_share, ok1, ok2) ==
    LET t1 == IF ShareIsSent(first_share)
              THEN <<Transfer(FirstContributor, first_share, ok1)>>
              ELSE <<>>
        t2 == IF ShareIsSent(second_share)
              THEN <<Transfer(SecondContributor, second_share, ok2)>>
              ELSE <<>>
    IN  IF t2 # <<>> /\ ~ok2
        THEN [result |-> "TransferFailed", transfers |-> t1 \o t2]
        ELSE [result |-> "Ok", transfers |-> t1 \o t2]

\* The transfers of the two-contributor case, first then second; a failed
\* transfer returns its error and nothing is issued after it.
two_transfers(first_share, second_share, ok1, ok2) ==
    LET t1 == IF ShareIsSent(first_share)
              THEN <<Transfer(FirstContributor, first_share, ok1)>>
              ELSE <<>>
        t2 == IF ShareIsSent(second_share)
              THEN <<Transfer(SecondContributor, second_share, ok2)>>
              ELSE <<>>
    IN  IF t1 # <<>> /\ ~ok1
        THEN [result |-> "TransferFailed", transfers |-> t1]
        ELSE IF t2 # <<>> /\ ~ok2
        THEN [result |-> "TransferFailed", transfers |-> t1 \o t2]
        ELSE [result |-> "Ok", transfers |-> t1 \o t2]

\* The two-contributor case with the second destination looked at only
\* after the first transfer.
distribute_two_late_check(m, amount, second_is_some, ok1, ok2) ==
    LET first_share == first_share_of(m, amount)
        second_share == second_share_of(m, amount, first_share.val)
    IN  IF ~first_share.some \/ ~second_share.some
        THEN [result |-> "MathOverflow", transfers |-> <<>>]
        ELSE IF ~second_is_some
        THEN [result |-> "InvalidContributors",
              transfers |-> two_transfers(first_share.val, U64(0), ok1, ok2).transfers]
        ELSE two_transfers(first_share.val, second_share.val, ok1, ok2)

\* The two-contributor case with the second share computed only after the
\* first transfer.
distribute_two_pay_first_early(m, amount, second_is_some, ok1, ok2) ==
    IF ~second_is_some
    THEN [result |-> "InvalidContributors", transfers |-> <<>>]
    ELSE LET first_share == first_share_of(m, amount)
         IN  IF ~first_share.some
             THEN [result |-> "MathOverflow", transfers |-> <<>>]
             ELSE LET paid == two_transfers(first_share.val, U64(0), ok1, ok2)
                      second_share == second_share_of(m, amount, first_share.val)
                  IN  IF paid.result # "Ok"
                      THEN paid
                      ELSE IF ~second_share.some
                      THEN [result |-> "MathOverflow", transfers |-> paid.transfers]
                      ELSE two_transfers(first_share.val, second_share.val, ok1, ok2)

\* The two-contributor case of distribute.
distribute_two(m, amount, second_is_some, ok1, ok2) ==
    IF ~second_is_some
    THEN [result |-> "InvalidContributors", transfers |-> <<>>]
    ELSE LET first_share == first_share_of(m, amount)
         IN  IF ~first_share.some
             THEN [result |-> "MathOverflow", transfers |-> <<>>]
             ELSE LET second_share == second_share_of(m, amount, first_share.val)
                  IN  IF ~second_share.some
                      THEN [result |-> "MathOverflow", transfers |-> <<>>]
                      ELSE two_transfers(first_share.val, second_share.val, ok1, ok2)

\* distribute with the total weight checked before `initialized`.
distribute_weight_check_first(m, amount, second_is_some, ok1, ok2) ==
    IF ~(m.total_weight > 0)
    THEN [result |-> "NoContributors", transfers |-> <<>>]
    ELSE IF ~m.initialized
    THEN [result |-> "MusicNotInitialized", transfers |-> <<>>]
    ELSE IF ~(Len(m.contributors) >= 1)
    THEN [result |-> "NoContributors", transfers |-> <<>>]
    ELSE IF Len(m.contributors) = 1
    THEN distribute_one(amount, ok1)
    ELSE IF Len(m.contributors) = 2
    THEN distribute_two(m, amount, second_is_some, ok1, ok2)
    ELSE [result |-> "Ok", transfers |-> <<>>]

\* distribute without the check of the total weight.
distribute_no_weight_check(m, amount, second_is_some, ok1, ok2) ==
    IF ~m.initialized
    THEN [result |-> "MusicNotInitialized", transfers |-> <<>>]
    ELSE IF ~(Len(m.contributors) >= 1)
    THEN [result |-> "NoContributors", transfers |-> <<>>]
    ELSE IF Len(m.contributors) = 1
    THEN distribute_one(amount, ok1)
    ELSE IF Len(m.contributors) = 2
    THEN distribute_two(m, amount, second_is_some, ok1, ok2)
    ELSE [result |-> "Ok", transfers |-> <<>>]

\* DistributeRoyalty::distribute: the result and the transfer calls issued.
distribute(m, amount, second_is_some, ok1, ok2) ==
    IF ~m.initialized
    THEN [result |-> "MusicNotInitialized", transfers |-> <<>>]
    ELSE IF ~(m.total_weight > 0)
    THEN [result |-> "NoContributors", transfers |-> <<>>]
    ELSE IF ~(Len(m.contributors) >= 1)
    THEN [result |-> "NoContributors", transfers |-> <<>>]
    ELSE IF Len(m.contributors) = 1
    THEN distribute_one(amount, ok1)
    ELSE IF Len(m.contributors) = 2
    THEN distribute_two(m, amount, second_is_some, ok1, ok2)
    ELSE [result |-> "Ok", transfers |-> <<>>]

(* ---------------------------------------------------------------------- *)
(* Instructions                                                            *)
(* ---------------------------------------------------------------------- *)

Init ==
    /\ allocated = FALSE
    /\ music = NoMusic
    /\ result = "none"
    /\ transfers = <<>>
    /\ call = NoCall

\* initialize_music under `init_if_needed`: the handler also runs on an
\* account that exists.
InitializeMusicIfNeeded(signers, music_ids) ==
    \E authority \in signers, music_id \in music_ids :
        /\ call' = [NoCall EXCEPT !.op = "initialize_music",
                                  !.authority = authority,
                                  !.music_id = music_id,
                                  !.allocated = allocated,
                                  !.music = music]
        /\ transfers' = <<>>
        /\ result' = "Ok"
        /\ allocated' = TRUE
        /\ music' = initialize_music(music, authority, music_id)

\* The instruction initialize_music under the accounts of InitializeMusic:
\* `init` creates the account and fails when it already exists.
InitializeMusic(signers, music_ids) ==
    \E authority \in signers, music_id \in music_ids :
        /\ call' = [NoCall EXCEPT !.op = "initialize_music",
                                  !.authority = authority,
                                  !.music_id = music_id,
                                  !.allocated = allocated,
                                  !.music = music]
        /\ transfers' = <<>>
        /\ IF allocated
           THEN /\ result' = "AccountAlreadyInUse"
                /\ UNCHANGED <<allocated, music>>
           ELSE /\ result' = "Ok"
                /\ allocated' = TRUE
                /\ music' = initialize_music(music, authority, music_id)

\* The instruction add_contribution under the accounts of AddContribution:
\* any signer may be the authority; the account is written back only when
\* the handler returns Ok.  max caps the length of the registry.
AddContribution(signers, pubkeys, contributor_types, weights, max) ==
    \E authority \in signers, contributor \in pubkeys,
       contributor_type \in contributor_types, contribution_weight \in weights :
        LET out == add_contribution(music, contributor, contributor_type,
                                    contribution_weight)
        IN  /\ allocated /\ out.result = "Ok"
                => Len(music.contributors) < max
            /\ call' = [NoCall EXCEPT !.op = "add_contribution",
                                      !.authority = authority,
                                      !.contributor = contributor,
                                      !.contributor_type = contributor_type,
                                      !.contribution_weight = contribution_weight,
                                      !.allocated = allocated,
                                      !.music = music]
            /\ transfers' = <<>>
            /\ allocated' = allocated
            /\ IF ~allocated
               THEN /\ result' = "AccountNotInitialized"
                    /\ music' = music
               ELSE /\ result' = out.result
                    /\ music' = IF out.result = "Ok" THEN out.music ELSE music

\* distribute_royalty that settles the registry: after a successful
\* distribution the contributors are removed and total_weight is reset.
DistributeRoyaltySettles(signers, amounts) ==
    \E authority \in signers, amount \in amounts,
       second_is_some \in BOOLEAN, ok1 \in BOOLEAN, ok2 \in BOOLEAN :
        LET out == distribute(music, amount, second_is_some, ok1, ok2)
            ran == allocated /\ music.authority = authority
        IN  /\ call' = [NoCall EXCEPT !.op = "distribute_royalty",
                                      !.authority = authority,
                                      !.amount = amount,
                                      !.second_contributor = second_is_some,
                                      !.allocated = allocated,
                                      !.music = music]
            /\ allocated' = allocated
            /\ music' = IF ran /\ out.result = "Ok"
                        THEN [music EXCEPT !.contributors = <<>>,
                                           !.total_weight = 0]
                        ELSE music
            /\ IF ~allocated
               THEN result' = "AccountNotInitialized" /\ transfers' = <<>>
               ELSE IF music.authority # authority
               THEN result' = "ConstraintRaw" /\ transfers' = <<>>
               ELSE result' = out.result /\ transfers' = out.transfers

\* The instruction distribute_royalty under the accounts of
\* DistributeRoyalty: the signer must be the music's authority.
DistributeRoyalty(signers, amounts) ==
    \E authority \in signers, amount \in amounts,
       second_is_some \in BOOLEAN, ok1 \in BOOLEAN, ok2 \in BOOLEAN :
        LET out == distribute(music, amount, second_is_some, ok1, ok2)
        IN  /\ call' = [NoCall EXCEPT !.op = "distribute_royalty",
                                      !.authority = authority,
                                      !.amount = amount,
                                      !.second_contributor = second_is_some,
                                      !.allocated = allocated,
                                      !.music = music]
            /\ UNCHANGED <<allocated, music>>
            /\ IF ~allocated
               THEN result' = "AccountNotInitialized" /\ transfers' = <<>>
               ELSE IF music.authority # authority
               THEN result' = "ConstraintRaw" /\ transfers' = <<>>
               ELSE result' = out.result /\ transfers' = out.transfers

Next ==
    \/ InitializeMusic(Signers, MusicIds)
    \/ AddContribution(Signers, Pubkeys, ContributorTypes, Weights,
                       MaxContributors)
    \/ DistributeRoyalty(Signers, Amounts)

Spec == Init /\ [][Next]_vars

\* The same instructions over the inputs of the split.
SplitNext ==
    \/ InitializeMusic(SplitSigners, MusicIds)
    \/ AddContribution(SplitSigners, SplitPubkeys, SplitContributorTypes,
                       SplitWeights, SplitMaxContributors)
    \/ DistributeRoyalty(SplitSigners, SplitAmounts)

SplitSpec == Init /\ [][SplitNext]_vars

(* ---------------------------------------------------------------------- *)
(* distribute as a function of the Music it is handed                      *)
(* ---------------------------------------------------------------------- *)

\* Values of struct Music as arguments of DistributeRoyalty::distribute,
\* whether or not an instruction sequence stores them: any flag
\* `initialized`, any total_weight, up to three contributors.  (Every Music
\* account the instructions store has initialized = TRUE; an account that
\* was never created is refused when the accounts are loaded, before the
\* handler.)
SnapshotWeights == {0, 1, U16Max}

SnapshotRegistries ==
    LET entry(k, w) == ContributorInfo(k, "composer", w)
    IN  {<<>>}
        \cup {<<entry("A", w)>> : w \in SnapshotWeights}
        \cup {<<entry("A", w[1]), entry("B", w[2])>> :
                w \in SnapshotWeights \X SnapshotWeights}
        \cup {<<entry("A", w[1]), entry("B", w[2]), entry("C", w[3])>> :
                w \in SnapshotWeights \X SnapshotWeights \X {0}}

SnapshotMusics ==
    {[authority |-> "owner", music_id |-> "W", contributors |-> cs,
      total_weight |-> tw, initialized |-> i] :
        cs \in SnapshotRegistries, tw \in SnapshotWeights, i \in BOOLEAN}

SnapshotInit ==
    /\ allocated = TRUE
    /\ music \in SnapshotMusics
    /\ result = "none"
    /\ transfers = <<>>
    /\ call = NoCall

SnapshotNext == DistributeRoyalty(Signers, Amounts)

SnapshotSpec == SnapshotInit /\ [][SnapshotNext]_vars

(* ---------------------------------------------------------------------- *)
(* Vocabulary of the properties                                            *)
(* ---------------------------------------------------------------------- *)

\* The last instruction was distribute_royalty and its handler ran: the
\* account exists and the signer passed the authority constraint.
DistributeRan ==
    /\ call.op = "distribute_royalty"
    /\ call.allocated
    /\ call.authority = call.music.authority

\* The last instruction was add_contribution and its handler ran.
AddRan == call.op = "add_contribution" /\ call.allocated

\* The amount of the transfer issued to a destination, 0 when none was.
SentTo(to) ==
    IF \E i \in 1..Len(transfers) : transfers[i].to = to
    THEN (CHOOSE t \in {transfers[i] : i \in 1..Len(transfers)} : t.to = to).amount
    ELSE U64(0)

\* The sum of the amounts of a sequence of transfers, one limb wider than u64.
RECURSIVE TotalOf(_)
TotalOf(ts) ==
    IF ts = <<>> THEN Pad(<<>>, NumLimbs + 1)
    ELSE SubSeq(WideAdd(Pad(Head(ts).amount, NumLimbs + 1), TotalOf(Tail(ts))),
                1, NumLimbs + 1)

\* q = floor(a * w / tw), stated by its bounds q * tw <= a * w < (q + 1) * tw
\* in exact arithmetic.
IsFloorOfRatio(q, a, w, tw) ==
    LET product == WideMul(a, w)
        below == WideMul(q, tw)
    IN  /\ ~Less(product, below)
        /\ Less(SubBorrow(product, below, 0), ToLimbs(tw, NumLimbs + 2))

\* The registry the last distribute read holds exactly two contributors and
\* a positive total weight.
TwoContributors ==
    /\ DistributeRan
    /\ Len(call.music.contributors) = 2
    /\ call.music.total_weight > 0

WeightsAre(w0, w1) ==
    /\ call.music.contributors[1].contribution_weight = w0
    /\ call.music.contributors[2].contribution_weight = w1

(* ---------------------------------------------------------------------- *)
(* Properties                                                              *)
(* ---------------------------------------------------------------------- *)

\* C1: a successful distribute over two contributors with total_weight > 0
\* sends amounts to the first and the second destination that add up to
\* amount exactly, a skipped zero share counting as 0.
C1_SharesSumToAmount ==
    (TwoContributors /\ result = "Ok")
        => WideAdd(SentTo(FirstContributor), SentTo(SecondContributor))
               = Pad(call.amount, NumLimbs + 1)

\* C1 witness: u64::MAX split over the weights (1, 2) in two transfers.
C1_Witness ==
    /\ TwoContributors /\ result = "Ok"
    /\ WeightsAre(1, 2)
    /\ call.amount = U64Max
    /\ Len(transfers) = 2

\* C2: in a successful distribute over two contributors the first receives
\* floor(amount * weight_0 / total_weight) and the second amount minus that;
\* weights (30, 70) split 100 into (30, 70), weights (1, 2) split 10 into
\* (3, 7).
C2_FloorAndRemainder ==
    (TwoContributors /\ result = "Ok")
        => LET first == SentTo(FirstContributor)
               second == SentTo(SecondContributor)
           IN  /\ IsFloorOfRatio(first, call.amount,
                                 call.music.contributors[1].contribution_weight,
                                 call.music.total_weight)
               /\ ~Less(call.amount, first)
               /\ second = SubBorrow(call.amount, first, 0)
               /\ (WeightsAre(30, 70) /\ call.amount = U64(100))
                      => (first = U64(30) /\ second = U64(70))
               /\ (WeightsAre(1, 2) /\ call.amount = U64(10))
                      => (first = U64(3) /\ second = U64(7))

\* C2 witness: 10 split over the weights (1, 2).
C2_Witness ==
    /\ TwoContributors /\ result = "Ok"
    /\ WeightsAre(1, 2)
    /\ call.amount = U64(10)
    /\ SentTo(FirstContributor) = U64(3)

\* C3 (as claimed): every distribute that returns success has issued
\* transfers whose amounts add up to amount, whatever the number of
\* contributors.
C3_SuccessDistributesAmount ==
    (DistributeRan /\ result = "Ok")
        => TotalOf(transfers) = Pad(call.amount, NumLimbs + 1)

\* C4: add_contribution of a new key whose weight would take total_weight
\* above 65535 fails with the overflow error and leaves the account as it
\* was: same contributors, same total_weight.
C4_OverflowLeavesRegistry ==
    (/\ AddRan
     /\ \A i \in 1..Len(call.music.contributors) :
            call.music.contributors[i].contributor # call.contributor
     /\ call.music.total_weight + call.contribution_weight > 2^U16Bits - 1)
        => /\ result = "MathOverflow"
           /\ music.contributors = call.music.contributors
           /\ music.total_weight = call.music.total_weight
           /\ music = call.music

\* C4 witness: an add that was refused for overflow on a registry that
\* already holds a contributor.
C4_Witness ==
    /\ AddRan
    /\ result = "MathOverflow"
    /\ Len(call.music.contributors) >= 1
    /\ call.music.total_weight + call.contribution_weight > 2^U16Bits - 1
    /\ music = call.music

\* C5: add_contribution with a key already in the contributor sequence fails
\* with the duplicate error and leaves total_weight and the sequence as they
\* were, whatever role label and weight are supplied.
C5_DuplicateRejected ==
    (/\ AddRan
     /\ \E i \in 1..Len(call.music.contributors) :
            call.music.contributors[i].contributor = call.contributor)
        => /\ result = "ContributorAlreadyExists"
           /\ music.total_weight = call.music.total_weight
           /\ music.contributors = call.music.contributors

\* C5 witness: a refused duplicate of the second entry, supplied with another
\* role label and another weight than the entry has.
C5_Witness ==
    /\ AddRan
    /\ result = "ContributorAlreadyExists"
    /\ Len(music.contributors) >= 2
    /\ music.contributors[2].contributor = call.contributor
    /\ music.contributors[2].contributor_type # call.contributor_type
    /\ music.contributors[2].contribution_weight # call.contribution_weight

\* C6 (as claimed): with two contributors, total_weight > 0 and a second
\* destination, distribute does not fail with MathOverflow for any 64-bit
\* amount and yields floor(amount * weight_0 / total_weight).
C6_NoOverflowInFirstShare ==
    (TwoContributors /\ call.second_contributor)
        => /\ result # "MathOverflow"
           /\ result = "Ok"
                  => IsFloorOfRatio(SentTo(FirstContributor), call.amount,
                                    call.music.contributors[1].contribution_weight,
                                    call.music.total_weight)

\* C7 (as claimed): distribute on a registry of more than two contributors
\* (with a positive total weight) fails with InvalidContributors and issues
\* no transfer.
C7_MoreThanTwoRejected ==
    (/\ DistributeRan
     /\ Len(call.music.contributors) > 2
     /\ call.music.total_weight > 0)
        => (result = "InvalidContributors" /\ transfers = <<>>)

\* C8: distribute on a registry of exactly one contributor of positive
\* weight issues exactly one transfer, of the whole amount, to the first
\* destination, whatever the weight, and succeeds when that transfer does.
C8_SingleContributorGetsAll ==
    (/\ DistributeRan
     /\ Len(call.music.contributors) = 1
     /\ call.music.contributors[1].contribution_weight > 0)
        => /\ Len(transfers) = 1
           /\ transfers[1].to = FirstContributor
           /\ transfers[1].amount = call.amount
           /\ (result = "Ok") <=> transfers[1].ok

\* C8 witness: 999 paid to a single contributor of weight 5.
C8_Witness ==
    /\ DistributeRan
    /\ Len(call.music.contributors) = 1
    /\ call.music.contributors[1].contribution_weight = 5
    /\ call.amount = U64(999)
    /\ result = "Ok"
    /\ transfers = <<Transfer(FirstContributor, U64(999), TRUE)>>

\* C9 (as claimed): distribute never issues a transfer of amount 0.
C9_NoZeroTransfer ==
    \A i \in 1..Len(transfers) : ~IsZero(transfers[i].amount)

\* C9 (amended): distribute issues a transfer of amount 0 only in the
\* single-contributor case with amount = 0; with two contributors a share
\* equal to zero results in no transfer call for that contributor.
C9_NoZeroTransferOfShare ==
    /\ \A i \in 1..Len(transfers) :
           IsZero(transfers[i].amount)
               => (Len(call.music.contributors) = 1 /\ IsZero(call.amount))
    /\ (TwoContributors /\ result = "Ok" /\ IsZero(call.amount))
           => transfers = <<>>

\* C9 witness: a successful distribute over two contributors whose first
\* share is zero: the only transfer goes to the second destination.
C9_Witness ==
    /\ TwoContributors /\ result = "Ok"
    /\ ~IsZero(call.amount)
    /\ Len(transfers) = 1
    /\ transfers[1].to = SecondContributor

\* C10: distribute on two contributors with total_weight > 0 and no second
\* destination fails with InvalidContributors and issues no transfer, not
\* even the first contributor's.
C10_MissingSecondDestination ==
    (TwoContributors /\ ~call.second_contributor)
        => (result = "InvalidContributors" /\ transfers = <<>>)

\* C10 witness: such a call, refused, where the first share would have been
\* positive.
C10_Witness ==
    /\ TwoContributors /\ ~call.second_contributor
    /\ call.music.contributors[1].contribution_weight > 0
    /\ ~IsZero(call.amount)
    /\ result = "InvalidContributors"
    /\ transfers = <<>>

\* C11: distribute on an initialized work whose contributor sequence is
\* empty, or whose total_weight is 0 (all registered weights 0), fails with
\* NoContributors and issues no transfer, also when the second destination
\* of a two-contributor registry is missing.
C11_NoContributors ==
    (/\ DistributeRan
     /\ call.music.initialized
     /\ \/ Len(call.music.contributors) = 0
        \/ call.music.total_weight = 0)
        => (result = "NoContributors" /\ transfers = <<>>)

\* C11 witness: two contributors of weight 0 and no second destination:
\* the call is refused for NoContributors, not for InvalidContributors.
C11_Witness ==
    /\ DistributeRan
    /\ Len(call.music.contributors) = 2
    /\ call.music.total_weight = 0
    /\ ~call.second_contributor
    /\ result = "NoContributors"

\* C12: distribute on a Music whose `initialized` is false fails with
\* MusicNotInitialized and issues no transfer, whatever the amount, the
\* number of contributors, total_weight and the destinations supplied.
C12_NotInitializedFirst ==
    (DistributeRan /\ ~call.music.initialized)
        => (result = "MusicNotInitialized" /\ transfers = <<>>)

\* C12 witness: a Music that is not initialized, has total_weight 0 and two
\* contributors, distributed without a second destination: the first check
\* decides.
C12_Witness ==
    /\ DistributeRan
    /\ ~call.music.initialized
    /\ call.music.total_weight = 0
    /\ Len(call.music.contributors) = 2
    /\ ~call.second_contributor
    /\ result = "MusicNotInitialized"

\* C13: whenever distribute fails with one of the program's own errors
\* (MusicNotInitialized, NoContributors, InvalidContributors, MathOverflow)
\* it has issued no transfer: every check and every share computation
\* precedes the first transfer call.
C13_OwnErrorsBeforeTransfers ==
    (/\ DistributeRan
     /\ result \in {"MusicNotInitialized", "NoContributors",
                    "InvalidContributors", "MathOverflow"})
        => transfers = <<>>

\* C13 witness: a two-contributor distribute with both destinations whose
\* share computation overflows, after all precondition checks passed.
C13_Witness ==
    /\ DistributeRan
    /\ call.music.initialized
    /\ call.music.total_weight > 0
    /\ Len(call.music.contributors) = 2
    /\ call.second_contributor
    /\ result = "MathOverflow"
    /\ transfers = <<>>

\* C14: in a two-contributor distribution the transfer to the first
\* contributor is issued before the one to the second; a transfer that fails
\* is the last one issued and makes distribute return failure, and a failure
\* of the second transfer is returned although the first was issued and
\* accepted.
C14_TransfersInOrderStopAtFailure ==
    TwoContributors
        => /\ Len(transfers) <= 2
           /\ Len(transfers) = 2
                  => /\ transfers[1].to = FirstContributor
                     /\ transfers[2].to = SecondContributor
           /\ \A i \in 1..Len(transfers) :
                  ~transfers[i].ok
                      => (i = Len(transfers) /\ result = "TransferFailed")
           /\ result = "Ok" => \A i \in 1..Len(transfers) : transfers[i].ok

\* C14 witness: the first transfer was accepted, the second refused, and
\* distribute returned the failure.
C14_Witness ==
    /\ TwoContributors
    /\ Len(transfers) = 2
    /\ transfers[1].to = FirstContributor /\ transfers[1].ok
    /\ transfers[2].to = SecondContributor /\ ~transfers[2].ok
    /\ result = "TransferFailed"

\* C15: initialize_music on a fresh account yields a Music with no
\* contributors, total_weight 0 and initialized = true, owned by the signer;
\* on an account that already exists it fails (the `init` constraint) and
\* leaves authority, music_id, contributors and total_weight as they were.
C15_CreatedOnce ==
    call.op = "initialize_music"
        => IF call.allocated
           THEN /\ result = "AccountAlreadyInUse"
                /\ allocated
                /\ music = call.music
           ELSE /\ result = "Ok"
                /\ allocated
                /\ music.contributors = <<>>
                /\ music.total_weight = 0
                /\ music.initialized
                /\ music.authority = call.authority
                /\ music.music_id = call.music_id

\* C15 witness: a second initialize_music, by another signer, on a Music
\* that holds contributors: refused, the registry kept.
C15_Witness ==
    /\ call.op = "initialize_music"
    /\ call.allocated
    /\ call.authority # music.authority
    /\ Len(music.contributors) >= 2
    /\ music.total_weight > 0
    /\ result = "AccountAlreadyInUse"

\* The sum of the weights of a contributor sequence.
RECURSIVE SumOfWeights(_)
SumOfWeights(cs) ==
    IF cs = <<>> THEN 0
    ELSE Head(cs).contribution_weight + SumOfWeights(Tail(cs))

\* C16: in every state reachable by initialize_music, add_contribution
\* (successful or failing) and distribute_royalty, total_weight is the sum
\* of the weights of the contributors in the sequence.
C16_TotalWeightIsSum ==
    music.total_weight = SumOfWeights(music.contributors)

\* C16 witness: a registry of weights 1 and 2 right after an add that was
\* refused for overflow.
C16_Witness ==
    /\ AddRan
    /\ result = "MathOverflow"
    /\ Len(music.contributors) = 2
    /\ music.contributors[1].contribution_weight = 1
    /\ music.contributors[2].contribution_weight = 2
    /\ music.total_weight = 3

\* C17: in every reachable state no two entries of the contributor sequence
\* carry the same key, also after repeated and failing add_contribution
\* calls.
C17_KeysUnique ==
    \A i \in 1..Len(music.contributors) :
        \A j \in 1..Len(music.contributors) :
            music.contributors[i].contributor = music.contributors[j].contributor
                => i = j

\* C17 witness: a registry of three entries right after a refused second add
\* of its first key.
C17_Witness ==
    /\ AddRan
    /\ result = "ContributorAlreadyExists"
    /\ Len(music.contributors) = 3
    /\ music.contributors[1].contributor = call.contributor

\* s is a prefix of t.
IsPrefix(s, t) == Len(s) <= Len(t) /\ SubSeq(t, 1, Len(s)) = s

\* C18: the registry is append-only: every step of every instruction leaves
\* the previous contributor sequence as a prefix of the new one; the
\* sequence changes only in a successful add_contribution, which extends it
\* by exactly one entry at the end, carrying the key, role label and weight
\* of the call.
C18_AppendOnly ==
    [][/\ IsPrefix(music.contributors, music'.contributors)
       /\ music'.contributors # music.contributors
              => (call'.op = "add_contribution" /\ result' = "Ok")
       /\ (call'.op = "add_contribution" /\ result' = "Ok")
              => music'.contributors =
                     Append(music.contributors,
                            ContributorInfo(call'.contributor,
                                            call'.contributor_type,
                                            call'.contribution_weight))]_vars

\* C18 witness: a successful add of a third entry behind the two entries
\* the registry held.
C18_Witness ==
    /\ AddRan
    /\ result = "Ok"
    /\ Len(call.music.contributors) = 2
    /\ Len(music.contributors) = 3
    /\ SubSeq(music.contributors, 1, 2) = call.music.contributors
    /\ music.contributors[3] =
           ContributorInfo(call.contributor, call.contributor_type,
                           call.contribution_weight)

\* C19 (as claimed): add_contribution succeeds only when the signing
\* authority is the Music's authority: an add signed by anyone else fails
\* and leaves the contributor sequence and total_weight as they were.
C19_OnlyOwnerAdds ==
    (AddRan /\ call.authority # call.music.authority)
        => /\ result # "Ok"
           /\ music.contributors = call.music.contributors
           /\ music.total_weight = call.music.total_weight

\* C20: distribute_royalty, whether it succeeds or fails, leaves the Music
\* as it was: authority, music_id, contributors, total_weight and
\* initialized are the same after the call as before.
C20_DistributeReadsOnly ==
    [][call'.op = "distribute_royalty"
           => /\ allocated' = allocated
              /\ music'.authority = music.authority
              /\ music'.music_id = music.music_id
              /\ music'.contributors = music.contributors
              /\ music'.total_weight = music.total_weight
              /\ music'.initialized = music.initialized]_vars

\* C20 witness: a successful distribution that issued a transfer, the Music
\* being what it was before the call.
C20_Witness ==
    /\ DistributeRan
    /\ result = "Ok"
    /\ Len(transfers) >= 1
    /\ Len(music.contributors) >= 1
    /\ music = call.music

====
